---- MODULE Spec2Model ----
(***************************************************************************)
(* A model of the course creator: the generation endpoints of the server   *)
(* (src/server.js and its variant with search diagnostics,                  *)
(* src/unnamed/part_001), the persistence endpoints of the server and the   *)
(* browser client that calls them (src/unnamed/part_000).                   *)
(*                                                                         *)
(* SpecGen is one generation request, from the POST to the response, with  *)
(* the per-skill enrichments interleaving at every await of a search call, *)
(* and the client's handling of the answer. SpecStore is the courses table,*)
(* one client and the requests of other clients, one handler at a time.    *)
(* SpecView is the course view: one course displayed and exported once.    *)
(* SpecPosts is POST /api/courses statement by statement for concurrent    *)
(* requests.                                                               *)
(***************************************************************************)
EXTENDS Integers, Sequences, FiniteSets, TLC

VARIABLES
    \* ---- one generation request (server.js / part_001) ----
    gpc,                \* position of the handler: idle, completion, searching, done
    build,              \* which server file serves the request
    endpoint,           \* "structure" (/api/generate-course) or "full"
    topic,              \* req.body.topic
    apiKey,             \* process.env.YOUTUBE_API_KEY is set
    responseText,       \* the completion text, a sequence of tokens
    courseStructure,    \* the parsed structure
    skillState,         \* per skill: running, returned, threw
    cursor,             \* per skill: index of the term whose search is in flight
    videos,             \* per skill: const videos = []
    attempts,           \* per skill: what each term's search call answered, in order
    totalSearches,
    successfulSearches,
    failedSearches,
    youtubeErrors,
    response,           \* what res.json / res.status(..).json sent
    \* ---- the store (server.js) ----
    rows,               \* the courses table
    nextId,             \* the SERIAL sequence of courses.id
    now,                \* the time, as the number of timestamps taken
    \* ---- the browser client (part_000) ----
    currentCourse,      \* let currentCourse = null: <<>> or <<course>>
    useLocalStorage,
    savedCourses,       \* localStorage's savedCourses
    shown,              \* the list displaySavedCourses last rendered
    \* ---- history ----
    lastOp,             \* the latest operation, its course and its alert
    exchanges,          \* the requests the latest operation made, with the answers
    lastSaved,          \* per topic, the content the store last accepted
    \* ---- the course view of the client (part_000) ----
    course,             \* the course displayCourse was given: <<>> or <<skills>>
    difficulty,         \* per skill, the difficulty badge of each video card
    trainstationExport, \* the object exportToTrainstation last downloaded
    generated,          \* what generateCourse did with the server's answer
    \* ---- concurrent requests to POST /api/courses (server.js) ----
    posts,              \* per request: position of its handler, body, what its SELECT found
    \* ---- the generation calls of the client (part_000) ----
    generations,        \* per generateCourse() call: idle, fetching or done, and its topic
    generateBtnDisabled,\* generateBtn.disabled
    loadingHidden,      \* loadingDiv has the class hidden
    inputSectionHidden, \* inputSection has the class hidden
    currentGeneration   \* the call whose answer currentCourse holds, 0 for none

genVars == <<gpc, build, endpoint, topic, apiKey, responseText, courseStructure,
             skillState, cursor, videos, attempts, totalSearches,
             successfulSearches, failedSearches, youtubeErrors, response>>

storeVars == <<rows, nextId, now, currentCourse, useLocalStorage, savedCourses,
               shown, lastOp, exchanges, lastSaved>>

\* The course view of the client: the course it displays, the difficulty
\* badges of its video cards and the Trainstation file of the last export.
viewVars == <<course, difficulty, trainstationExport, generated>>

\* The handlers of POST /api/courses that are in progress.
reqVars == <<posts>>

\* The generateCourse() calls of the client and the controls they set.
clickVars == <<generations, generateBtnDisabled, loadingHidden, inputSectionHidden,
               currentGeneration>>

vars == <<genVars, storeVars, viewVars, reqVars, clickVars, clickVars>>

-----------------------------------------------------------------------------
(* Bounds of the model *)

MaxSkills == 2      \* skills in a parsed structure
MaxTerms == 3       \* search terms of one skill
MaxSearches == 3    \* search terms of one structure, all skills together
MaxClock == 2       \* timestamps taken by saves and imports
MaxVideos == 10     \* videos of the longest skill of a displayed course
MaxCollisions == 1  \* generateUUID() results of one export that repeat an earlier one
MaxRequests == 2    \* save requests in progress at the same time
MaxGenerations == 3 \* generateCourse() calls of one page

-----------------------------------------------------------------------------
(* The request and the completion text *)

\* req.body.topic: absent or empty, blank, a word.
ReqTopics == {"", " ", "X"}

\* The completion text as tokens: "{" and "}", "k" a "key": value member,
\* "," a separator, "p" any other character.
Completions ==
    { <<"p", "{", "k", ",", "k", "}", "p">>,
      <<"p">>,
      <<"{", "k">>,
      <<"}", "p", "{">>,
      <<"{", "k", "}", "p", "{", "k", "}">> }

Opens(text) == {i \in 1..Len(text) : text[i] = "{"}
Closes(text) == {i \in 1..Len(text) : text[i] = "}"}
Min(S) == CHOOSE x \in S : \A y \in S : x <= y
Max(S) == CHOOSE x \in S : \A y \in S : x >= y

\* A lazy match: from the first "{" to the first "}" after it.
JsonMatchLazy(text) ==
    LET after == {j \in Closes(text) : Opens(text) # {} /\ j > Min(Opens(text))}
    IN  IF after # {}
        THEN [found |-> TRUE, span |-> SubSeq(text, Min(Opens(text)), Min(after))]
        ELSE [found |-> FALSE, span |-> <<>>]

\* responseText.match(/\{[\s\S]*\}/): greedy, from the first "{" to the last "}".
JsonMatch(text) ==
    IF Opens(text) # {} /\ Closes(text) # {} /\ Min(Opens(text)) < Max(Closes(text))
    THEN [found |-> TRUE, span |-> SubSeq(text, Min(Opens(text)), Max(Closes(text)))]
    ELSE [found |-> FALSE, span |-> <<>>]

\* Members of an object: empty, or k (, k)*.
RECURSIVE IsMembers(_)
IsMembers(s) ==
    IF Len(s) = 0 THEN FALSE
    ELSE IF Len(s) = 1 THEN s[1] = "k"
    ELSE s[1] = "k" /\ s[2] = "," /\ IsMembers(SubSeq(s, 3, Len(s)))

\* JSON.parse(jsonMatch[0]) does not throw.
JsonParses(span) ==
    /\ Len(span) >= 2
    /\ span[1] = "{"
    /\ span[Len(span)] = "}"
    /\ (Len(span) = 2 \/ IsMembers(SubSeq(span, 2, Len(span) - 1)))

\* A parse whose catch never runs.
ParseAlwaysOk(text) == TRUE

\* The try block around match and JSON.parse: the structure is parsed or the
\* catch runs.
ParseOk(text) == JsonMatch(text).found /\ JsonParses(JsonMatch(text).span)

-----------------------------------------------------------------------------
(* The structures the completion can hold *)

\* The k-th search term of the skill at position i.
Term(i, k) == 10 * i + k

\* A skill whose searchTerms is a sequence of n terms.
SkillOf(i, n) ==
    [name |-> i, iterable |-> TRUE, searchTerms |-> [k \in 1..n |-> Term(i, k)]]

\* A skill whose searchTerms is missing or not iterable (an object, as the
\* structure-only prompt asks for).
SkillNoTerms(i) == [name |-> i, iterable |-> FALSE, searchTerms |-> <<>>]

SkillShapes(i) == {SkillNoTerms(i)} \cup {SkillOf(i, n) : n \in 0..MaxTerms}

RECURSIVE SumLen(_)
SumLen(skills) ==
    IF Len(skills) = 0 THEN 0
    ELSE Len(skills[1].searchTerms) + SumLen(Tail(skills))

SkillSeqs ==
    {sk \in UNION {[1..n -> UNION {SkillShapes(i) : i \in 1..MaxSkills}] : n \in 0..MaxSkills} :
        /\ \A i \in 1..Len(sk) : sk[i].name = i
        /\ SumLen(sk) <= MaxSearches}

\* youtubeErrors.slice(0, 5): the number of errors the diagnostics report.
MaxReportedErrors == 5

\* One skill with one search term more than the diagnostics report errors
\* (the prompt asks for ten terms a skill).
LongSkills == <<SkillOf(1, MaxReportedErrors + 1)>>

\* What JSON.parse returns: skills is a sequence, or it is absent.
Structures ==
    {[parsed |-> TRUE, topic |-> "X", skillsIsSeq |-> TRUE, skills |-> sk] :
        sk \in SkillSeqs \cup {LongSkills}}
        \cup {[parsed |-> TRUE, topic |-> "X", skillsIsSeq |-> FALSE, skills |-> <<>>]}

\* let courseStructure; before the parse has assigned it.
NoStructure == [parsed |-> FALSE, topic |-> "", skillsIsSeq |-> FALSE, skills |-> <<>>]

-----------------------------------------------------------------------------
(* Responses *)

NoDebug == [totalSearches |-> 0, successfulSearches |-> 0, failedSearches |-> 0,
            errors |-> <<>>, hasErrors |-> FALSE]

NoResponse ==
    [status |-> 0, error |-> "", hasRaw |-> FALSE, raw |-> <<>>,
     topic |-> "", hasSkills |-> FALSE, skills |-> <<>>,
     videosNull |-> FALSE, hasMessage |-> FALSE,
     hasDebug |-> FALSE, debug |-> NoDebug]

ErrorResponse(status, error) ==
    [NoResponse EXCEPT !.status = status, !.error = error]

Responded == response.status # 0

StructureSkill(sk) ==
    [name |-> sk.name, iterable |-> sk.iterable, searchTerms |-> sk.searchTerms,
     hasVideos |-> FALSE, videos |-> <<>>]

\* return { ...skill, videos }
EnrichedSkill(sk, vs) ==
    [name |-> sk.name, iterable |-> sk.iterable, searchTerms |-> sk.searchTerms,
     hasVideos |-> TRUE, videos |-> vs]

\* res.json(courseStructure) of the structure-only endpoint.
StructureResponse(st) ==
    [NoResponse EXCEPT !.status = 200, !.topic = st.topic,
                       !.hasSkills = st.skillsIsSeq,
                       !.skills = [i \in 1..Len(st.skills) |-> StructureSkill(st.skills[i])]]

\* A missing key answered as /api/search-youtube answers it.
NoKeyAsError(st) == ErrorResponse(500, "YouTube API key not configured")

\* res.json({ ...courseStructure, videos: null, message: ... })
NoKeyResponse(st) ==
    [StructureResponse(st) EXCEPT !.videosNull = TRUE, !.hasMessage = TRUE]

\* A report of every error recorded.
DebugErrorsAll(errs) == errs

\* youtubeErrors.length > 0 ? youtubeErrors.slice(0, 5) : undefined
DebugErrors(errs) ==
    IF Len(errs) > MaxReportedErrors THEN SubSeq(errs, 1, MaxReportedErrors) ELSE errs

Debug(total, ok, failed, errs) ==
    [totalSearches |-> total, successfulSearches |-> ok, failedSearches |-> failed,
     errors |-> DebugErrors(errs), hasErrors |-> Len(errs) > 0]

\* A course whose skills are joined in the reverse of the input order.
CourseResponseReversed(b, st, vids, total, ok, failed, errs) ==
    [NoResponse EXCEPT
        !.status = 200,
        !.topic = st.topic,
        !.hasSkills = TRUE,
        !.skills = [i \in 1..Len(st.skills) |->
                        EnrichedSkill(st.skills[Len(st.skills) + 1 - i],
                                      vids[Len(st.skills) + 1 - i])],
        !.hasDebug = (b = "part_001"),
        !.debug = IF b = "part_001" THEN Debug(total, ok, failed, errs) ELSE NoDebug]

\* The course the full endpoint sends once Promise.all has resolved; the
\* variant without diagnostics sends no _debug.
CourseResponse(b, st, vids, total, ok, failed, errs) ==
    [NoResponse EXCEPT
        !.status = 200,
        !.topic = st.topic,
        !.hasSkills = TRUE,
        !.skills = [i \in 1..Len(st.skills) |-> EnrichedSkill(st.skills[i], vids[i])],
        !.hasDebug = (b = "part_001"),
        !.debug = IF b = "part_001" THEN Debug(total, ok, failed, errs) ELSE NoDebug]

-----------------------------------------------------------------------------
(* What one search call (fetch, then response.json()) can give *)

Outcomes ==
    { "throws",           \* fetch or response.json() rejects, or data is null
      "errorQuota",       \* data.error with errors[0].reason = quotaExceeded
      "errorOther",       \* data.error with another reason
      "empty",            \* no items, or an empty list
      "item",             \* a complete first item
      "itemIncomplete",   \* a first item lacking id, snippet or thumbnails
      "itemNoTitle" }     \* a first item whose snippet has no title

\* if (data.error)
IsServiceError(o) == o \in {"errorQuota", "errorOther"}

\* if (data.items && data.items.length > 0)
HasItems(o) == o \in {"item", "itemIncomplete", "itemNoTitle"}

\* The object literal of videos.push reads item.id.videoId,
\* item.snippet.title, item.snippet.thumbnails.medium.url: a TypeError when
\* one of the objects on the way is missing.
PushThrows(o) == o = "itemIncomplete"

\* item.snippet.title.substring(0, 50) in the log line after the push.
LogThrows(o) == o = "itemNoTitle"

\* The catch block of the term runs.
Caught(o) == o = "throws" \/ (HasItems(o) /\ (PushThrows(o) \/ LogThrows(o)))

\* successfulSearches++ is the first statement of the items branch.
SuccessInc(o) == IF HasItems(o) THEN 1 ELSE 0

\* failedSearches++: in the error branch, in the no-results branch and in catch.
FailedInc(o) ==
    IF IsServiceError(o) \/ o = "empty" \/ Caught(o) THEN 1 ELSE 0

\* A loop that goes on after a quota error.
BreaksNever(o) == FALSE

\* if (data.error.errors?.[0]?.reason === 'quotaExceeded') break;
Breaks(o) == o = "errorQuota"

Video(term) == [id |-> term, searchTerm |-> term]

\* A push that runs twice.
PushedTwice(o, term) ==
    IF HasItems(o) /\ ~PushThrows(o) THEN <<Video(term), Video(term)>> ELSE <<>>

\* videos.push({...}) has run.
Pushed(o, term) ==
    IF HasItems(o) /\ ~PushThrows(o) THEN <<Video(term)>> ELSE <<>>

\* An error branch and a catch block whose push to the shared list is lost.
ErrorEntriesLost(o, term) == <<>>

\* youtubeErrors.push(...) of the error branch and of the catch block.
ErrorEntries(o, term) ==
    IF IsServiceError(o)
    THEN <<[term |-> term,
            code |-> IF o = "errorQuota" THEN "403" ELSE "400",
            reason |-> IF o = "errorQuota" THEN "quotaExceeded" ELSE "other"]>>
    ELSE IF Caught(o)
    THEN <<[term |-> term, code |-> "FETCH_ERROR", reason |-> "none"]>>
    ELSE <<>>

\* The variant without diagnostics pushes a video when there are items and the
\* literal does not throw; it has no log line after the push.
PushedPlain(o, term) ==
    IF HasItems(o) /\ ~PushThrows(o) THEN <<Video(term)>> ELSE <<>>


-----------------------------------------------------------------------------
(* One generation request *)

Builds == {"server.js", "part_001"}

GenIdle ==
    /\ gpc = "idle"
    /\ build = "server.js"
    /\ endpoint = "none"
    /\ topic = ""
    /\ responseText = <<>>
    /\ courseStructure = NoStructure
    /\ skillState = <<>>
    /\ cursor = <<>>
    /\ videos = <<>>
    /\ attempts = <<>>
    /\ totalSearches = 0
    /\ successfulSearches = 0
    /\ failedSearches = 0
    /\ youtubeErrors = <<>>
    /\ response = NoResponse

\* if (!topic) return res.status(400)...; otherwise the completion is awaited.
ReceiveTopic(b, e, t) ==
    /\ gpc = "idle"
    /\ build' = b
    /\ endpoint' = e
    /\ topic' = t
    /\ IF t = ""
       THEN /\ response' = ErrorResponse(400, "Topic is required")
            /\ gpc' = "done"
       ELSE /\ response' = response
            /\ gpc' = "completion"
    /\ UNCHANGED <<storeVars, viewVars, reqVars, clickVars, apiKey, responseText, courseStructure, skillState, cursor, videos,
                   attempts, totalSearches, successfulSearches, failedSearches,
                   youtubeErrors>>

\* POST /api/generate-course
PostGenerateCourse ==
    \E b \in Builds, t \in ReqTopics : ReceiveTopic(b, "structure", t)

\* POST /api/generate-full-course
PostGenerateFullCourse ==
    \E b \in Builds, t \in ReqTopics : ReceiveTopic(b, "full", t)

\* anthropic.messages.create rejects: the outer catch answers.
CompletionThrows ==
    /\ gpc = "completion"
    /\ response' = ErrorResponse(500,
                     IF endpoint = "structure" THEN "Failed to generate course structure"
                                               ELSE "Failed to generate course")
    /\ gpc' = "done"
    /\ UNCHANGED <<storeVars, viewVars, reqVars, clickVars, build, endpoint, topic, apiKey, responseText, courseStructure,
                   skillState, cursor, videos, attempts, totalSearches, successfulSearches,
                   failedSearches, youtubeErrors>>

\* The catch of the parse in /api/generate-course.
StructureParseError(text) ==
    [ErrorResponse(500, "Failed to parse AI response") EXCEPT !.hasRaw = TRUE, !.raw = text]

\* The catch of the parse in /api/generate-full-course.
FullParseError(text) == ErrorResponse(500, "Failed to parse course structure")

\* /api/generate-course after the completion: parse, then res.json(courseStructure).
StructureCompletion ==
    /\ gpc = "completion"
    /\ endpoint = "structure"
    /\ \E text \in Completions :
        /\ responseText' = text
        /\ IF ParseOk(text)
           THEN \E st \in Structures :
                    /\ courseStructure' = st
                    /\ response' = StructureResponse(st)
           ELSE /\ courseStructure' = courseStructure
                /\ response' = StructureParseError(text)
    /\ gpc' = "done"
    /\ UNCHANGED <<storeVars, viewVars, reqVars, clickVars, build, endpoint, topic, apiKey, skillState, cursor, videos, attempts,
                   totalSearches, successfulSearches, failedSearches, youtubeErrors>>

\* courseStructure.skills.map(async (skill) => ...) up to each skill's first
\* await: for (const term of skill.searchTerms) throws when searchTerms is not
\* iterable, ends at once when it is empty, and otherwise counts the first
\* term and issues its search.
FirstState(sk) ==
    IF ~sk.iterable THEN "threw"
    ELSE IF Len(sk.searchTerms) = 0 THEN "returned"
    ELSE "running"

Running(states) == {i \in DOMAIN states : states[i] = "running"}
Threw(states) == {i \in DOMAIN states : states[i] = "threw"}

\* await Promise.all(...) has settled: it rejects with the first rejection and
\* resolves when every skill has returned.
AllSettled(states) ==
    IF Threw(states) # {} THEN "rejected"
    ELSE IF Running(states) = {} THEN "resolved"
    ELSE "pending"

\* /api/generate-full-course after the completion: parse, the API key check,
\* and the start of every skill's enrichment.
FullCompletion ==
    /\ gpc = "completion"
    /\ endpoint = "full"
    /\ \E text \in Completions :
        /\ responseText' = text
        /\ IF ~ParseOk(text)
           THEN /\ response' = FullParseError(text)
                /\ gpc' = "done"
                /\ UNCHANGED <<courseStructure, skillState, cursor, videos, attempts,
                               totalSearches>>
           ELSE \E st \in Structures :
                /\ courseStructure' = st
                /\ IF ~apiKey
                   THEN /\ response' = NoKeyResponse(st)
                        /\ gpc' = "done"
                        /\ UNCHANGED <<skillState, cursor, videos, attempts, totalSearches>>
                   ELSE IF ~st.skillsIsSeq
                   THEN \* courseStructure.skills.map throws: the outer catch
                        /\ response' = ErrorResponse(500, "Failed to generate course")
                        /\ gpc' = "done"
                        /\ UNCHANGED <<skillState, cursor, videos, attempts, totalSearches>>
                   ELSE LET n == Len(st.skills)
                            states == [i \in 1..n |-> FirstState(st.skills[i])]
                        IN  /\ skillState' = states
                            /\ cursor' = [i \in 1..n |-> IF states[i] = "running" THEN 1 ELSE 0]
                            /\ videos' = [i \in 1..n |-> <<>>]
                            /\ attempts' = [i \in 1..n |-> <<>>]
                            /\ totalSearches' =
                                 IF build = "part_001" THEN Cardinality(Running(states)) ELSE 0
                            /\ response' =
                                 CASE AllSettled(states) = "rejected" ->
                                        ErrorResponse(500, "Failed to generate course")
                                   [] AllSettled(states) = "resolved" ->
                                        CourseResponse(build, st, [i \in 1..n |-> <<>>], 0, 0, 0, <<>>)
                                   [] OTHER -> response
                            /\ gpc' = IF Running(states) = {} THEN "done" ELSE "searching"
    /\ UNCHANGED <<storeVars, viewVars, reqVars, clickVars, build, endpoint, topic, apiKey, successfulSearches, failedSearches,
                   youtubeErrors>>

\* The loop of skill s when the search of its current term has answered o:
\* it goes on to the next term unless it broke or the terms are used up.
Continues(s, o) ==
    ~Breaks(o) /\ cursor[s] < Len(courseStructure.skills[s].searchTerms)

\* A quota error that stops the loops of all skills.
LoopStatesStopAll(s, o) ==
    IF Breaks(o)
    THEN [i \in DOMAIN skillState |-> IF skillState[i] = "running" THEN "returned" ELSE skillState[i]]
    ELSE [skillState EXCEPT ![s] = IF Continues(s, o) THEN "running" ELSE "returned"]

\* The skills' loops after that answer: a break leaves the loop of skill s,
\* and of no other skill.
LoopStates(s, o) ==
    [skillState EXCEPT ![s] = IF Continues(s, o) THEN "running" ELSE "returned"]

\* The search of skill s answers (part_001): the rest of the loop body, then
\* the next term up to its await, and the response when this was the last
\* skill Promise.all waited for.
SearchReturns(s, o) ==
    /\ gpc = "searching"
    /\ build = "part_001"
    /\ s \in Running(skillState)
    /\ LET term == courseStructure.skills[s].searchTerms[cursor[s]]
           states == LoopStates(s, o)
           more == states[s] = "running"
           vids == [videos EXCEPT ![s] = @ \o Pushed(o, term)]
           total == totalSearches + (IF more THEN 1 ELSE 0)
           ok == successfulSearches + SuccessInc(o)
           failed == failedSearches + FailedInc(o)
           errs == youtubeErrors \o ErrorEntries(o, term)
       IN  /\ skillState' = states
           /\ cursor' = [cursor EXCEPT ![s] = IF more THEN @ + 1 ELSE @]
           /\ videos' = vids
           /\ attempts' = [attempts EXCEPT ![s] = Append(@, o)]
           /\ totalSearches' = total
           /\ successfulSearches' = ok
           /\ failedSearches' = failed
           /\ youtubeErrors' = errs
           /\ response' =
                IF ~Responded /\ AllSettled(states) = "resolved"
                THEN CourseResponse(build, courseStructure, vids, total, ok, failed, errs)
                ELSE response
           /\ gpc' = IF Running(states) = {} THEN "done" ELSE "searching"
    /\ UNCHANGED <<storeVars, viewVars, reqVars, clickVars, build, endpoint, topic, apiKey, responseText, courseStructure>>

\* The same step in server.js, whose loop has no counters, no error branch
\* and no break.
SearchReturnsPlain(s, o) ==
    /\ gpc = "searching"
    /\ build = "server.js"
    /\ s \in Running(skillState)
    /\ LET term == courseStructure.skills[s].searchTerms[cursor[s]]
           more == cursor[s] < Len(courseStructure.skills[s].searchTerms)
           states == [skillState EXCEPT ![s] = IF more THEN "running" ELSE "returned"]
           vids == [videos EXCEPT ![s] = @ \o PushedPlain(o, term)]
       IN  /\ skillState' = states
           /\ cursor' = [cursor EXCEPT ![s] = IF more THEN @ + 1 ELSE @]
           /\ videos' = vids
           /\ attempts' = [attempts EXCEPT ![s] = Append(@, o)]
           /\ response' =
                IF ~Responded /\ AllSettled(states) = "resolved"
                THEN CourseResponse(build, courseStructure, vids, 0, 0, 0, <<>>)
                ELSE response
           /\ gpc' = IF Running(states) = {} THEN "done" ELSE "searching"
    /\ UNCHANGED <<storeVars, viewVars, reqVars, clickVars, build, endpoint, topic, apiKey, responseText, courseStructure,
                   totalSearches, successfulSearches, failedSearches, youtubeErrors>>

SearchAnswer ==
    \E s \in 1..MaxSkills, o \in Outcomes : SearchReturns(s, o)

SearchAnswerPlain ==
    \E s \in 1..MaxSkills, o \in Outcomes : SearchReturnsPlain(s, o)

\* generateCourse() of the client before the answer of its fetch.
NotReturned == [returned |-> FALSE, warning |-> FALSE, failure |-> FALSE, displayed |-> FALSE]

\* currentCourse._debug is there and debug.failedSearches > 0 || debug.errors,
\* and debug.successfulSearches === 0: alert(warningMsg).
WarningAlert(resp) ==
    /\ resp.hasDebug
    /\ (resp.debug.failedSearches > 0 \/ resp.debug.hasErrors)
    /\ resp.debug.successfulSearches = 0

\* displayCourse(currentCourse) runs to its end: course.skills.forEach needs
\* an array.
Displays(resp) == resp.hasSkills

\* generateCourse() of the client after its fetch of /api/generate-full-course
\* has answered: a response that is not ok and an exception of displayCourse
\* end in the catch block's alert.
GenerateCourseReturns ==
    /\ gpc = "done"
    /\ endpoint = "full"
    /\ ~generated.returned
    /\ generated' =
         IF response.status # 200
         THEN [returned |-> TRUE, warning |-> FALSE, failure |-> TRUE, displayed |-> FALSE]
         ELSE [returned |-> TRUE, warning |-> WarningAlert(response),
               failure |-> ~Displays(response), displayed |-> Displays(response)]
    /\ UNCHANGED <<genVars, storeVars, reqVars, clickVars, course, difficulty, trainstationExport>>

GenStep ==
    \/ PostGenerateCourse
    \/ PostGenerateFullCourse
    \/ CompletionThrows
    \/ StructureCompletion
    \/ FullCompletion
    \/ SearchAnswer
    \/ SearchAnswerPlain
    \/ GenerateCourseReturns

-----------------------------------------------------------------------------
(* The store: the courses table and the endpoints of /api/courses *)

Topics == {"X", "Y"}
Bodies == {1, 2}

\* A topic that is the number 7 in the JSON, written as the topic column
\* holds it; every other topic is a string.
NumberTopic == "7"

IsString(t) == t # NumberTopic

\* The topics a row can have.
StoredTopics == Topics \cup {NumberTopic}

\* course.skills: an array, absent, or an object that is no array.
SkillsKinds == {"array", "missing", "object"}

\* A course as generation returns it: no id and no savedAt yet. body stands
\* for what the skills and their videos say, skills for the shape of the
\* skills key, debug for the presence of a _debug key.
NewCourse(t, b) ==
    [topic |-> t, body |-> b, id |-> 0, savedAt |-> 0, skills |-> "array",
     debug |-> FALSE]

\* What a course says, apart from the id and the timestamp a store adds.
Content(c) ==
    [topic |-> c.topic, body |-> c.body, skills |-> c.skills, debug |-> c.debug]

\* What the store answers to one query.
StoreAnswers == {"ok", "throws"}

\* A probe without the catch's false.
ProbeAlwaysTrue(answer) == TRUE

\* isDatabaseAvailable: SELECT 1 in a try, false in the catch.
IsDatabaseAvailable(answer) == answer = "ok"

NoAnswer == [status |-> 0, success |-> FALSE, useLocalStorage |-> FALSE,
             courses |-> <<>>, id |-> 0, queries |-> 0]

\* { ..., useLocalStorage: true } of the three endpoints when the probe fails.
FallbackAnswer == [NoAnswer EXCEPT !.status = 200, !.success = TRUE,
                                   !.useLocalStorage = TRUE]

\* res.status(code).json({ error })
ErrorAnswer(code, n) == [NoAnswer EXCEPT !.status = code, !.queries = n]

\* rows.map(row => ({ id: row.id, ...row.data, savedAt: row.updated_at })):
\* an id key in the data overwrites the row's id.
ListedCourse(r) ==
    [r.data EXCEPT !.id = IF r.data.id # 0 THEN r.data.id ELSE r.id,
                   !.savedAt = r.updated_at]

RECURSIVE ByUpdatedDesc(_)
\* ORDER BY updated_at DESC
ByUpdatedDesc(tbl) ==
    IF tbl = {} THEN <<>>
    ELSE LET r == CHOOSE x \in tbl : \A y \in tbl : x.updated_at >= y.updated_at
         IN  <<r>> \o ByUpdatedDesc(tbl \ {r})

\* GET /api/courses
GetCourses(tbl, probe, query) ==
    IF ~IsDatabaseAvailable(probe)
    THEN [FallbackAnswer EXCEPT !.success = FALSE]
    ELSE IF query = "throws" THEN ErrorAnswer(500, 1)
    ELSE [NoAnswer EXCEPT
            !.status = 200,
            !.courses = [i \in 1..Cardinality(tbl) |-> ListedCourse(ByUpdatedDesc(tbl)[i])],
            !.queries = 1]

\* SELECT id FROM courses WHERE topic = $1
Existing(tbl, t) == {r \in tbl : r.topic = t}

\* A save that inserts without looking for the topic.
UpsertAlwaysInsert(tbl, seq, time, c) ==
    [rows |-> tbl \cup {[id |-> seq, topic |-> c.topic, data |-> c,
                          updated_at |-> time + 1]},
     nextId |-> seq + 1,
     id |-> seq]

\* UPDATE ... WHERE topic = $2, or INSERT when the SELECT found no row.
Upsert(tbl, seq, time, c) ==
    IF Existing(tbl, c.topic) # {}
    THEN [rows |-> {IF r.topic = c.topic
                    THEN [r EXCEPT !.data = c, !.updated_at = time + 1]
                    ELSE r : r \in tbl},
          nextId |-> seq,
          id |-> (CHOOSE r \in Existing(tbl, c.topic) : TRUE).id]
    ELSE [rows |-> tbl \cup {[id |-> seq, topic |-> c.topic, data |-> c,
                              updated_at |-> time + 1]},
          nextId |-> seq + 1,
          id |-> seq]

\* POST /api/courses with req.body.course = sent (<<>> when absent).
PostCourses(tbl, seq, sent, probe, query) ==
    IF ~IsDatabaseAvailable(probe)
    THEN [rows |-> tbl, nextId |-> seq, answer |-> FallbackAnswer]
    ELSE IF sent = <<>> \/ sent[1].topic = ""
    THEN [rows |-> tbl, nextId |-> seq, answer |-> ErrorAnswer(400, 0)]
    ELSE IF query = "throws"
    THEN [rows |-> tbl, nextId |-> seq, answer |-> ErrorAnswer(500, 1)]
    ELSE LET u == Upsert(tbl, seq, now, sent[1])
         IN  [rows |-> u.rows, nextId |-> u.nextId,
              answer |-> [NoAnswer EXCEPT !.status = 200, !.success = TRUE,
                                          !.id = u.id, !.queries = 2]]

\* DELETE /api/courses/:id
DeleteCourses(tbl, id, probe, query) ==
    IF ~IsDatabaseAvailable(probe)
    THEN [rows |-> tbl, answer |-> FallbackAnswer]
    ELSE IF query = "throws"
    THEN [rows |-> tbl, answer |-> ErrorAnswer(500, 1)]
    ELSE [rows |-> {r \in tbl : r.id # id},
          answer |-> [NoAnswer EXCEPT !.status = 200, !.success = TRUE, !.queries = 1]]

-----------------------------------------------------------------------------
(* The browser client *)

\* What a fetch of the client meets: no server, a server whose probe fails,
\* a server whose store fails after the probe, a working server.
Nets == {"unreachable", "probeThrows", "queryThrows", "ok"}

\* What the fetches of an operation can meet; the localStorage branches make
\* no fetch, and no second fetch follows one that was rejected.
Fetches(local) == IF local THEN {"ok"} ELSE Nets

Refetches(local, net) == Fetches(local \/ net = "unreachable")

ProbeOf(net) == IF net = "probeThrows" THEN "throws" ELSE "ok"
QueryOf(net) == IF net = "queryThrows" THEN "throws" ELSE "ok"

\* One request and its answer, as the history keeps it.
Exchange(ep, net, answer, before, after) ==
    [endpoint |-> ep, probe |-> ProbeOf(net),
     available |-> IsDatabaseAvailable(ProbeOf(net)),
     status |-> answer.status, useLocalStorage |-> answer.useLocalStorage,
     listed |-> Len(answer.courses), queries |-> answer.queries,
     changed |-> before # after]

\* loadSavedCourses: what it leaves in useLocalStorage and on the screen.
\* displaySavedCourses shows no card for an absent or empty list.
LoadSaved(tbl, local, net) ==
    IF net = "unreachable"
    THEN [useLocalStorage |-> TRUE, shown |-> local, exchanges |-> <<>>]
    ELSE LET data == GetCourses(tbl, ProbeOf(net), QueryOf(net))
         IN  [useLocalStorage |-> data.useLocalStorage,
              shown |-> IF data.useLocalStorage THEN local ELSE data.courses,
              exchanges |-> <<Exchange("GET", net, data, tbl, tbl)>>]

\* courses.findIndex(c => c.topic === currentCourse.topic), 1-based; 0 for -1.
FindIndex(courses, t) ==
    IF \E i \in 1..Len(courses) : courses[i].topic = t
    THEN CHOOSE i \in 1..Len(courses) :
            /\ courses[i].topic = t
            /\ \A j \in 1..(i - 1) : courses[j].topic # t
    ELSE 0

\* { ...currentCourse, savedAt: new Date().toISOString() }
Stamped(c) == [c EXCEPT !.savedAt = now + 1]

\* The localStorage branch of saveCourse: the saved list, or no change when
\* the user declines to replace.
SaveLocal(courses, c, confirm) ==
    LET i == FindIndex(courses, c.topic)
    IN  IF i > 0
        THEN IF confirm
             THEN [saved |-> TRUE, courses |-> [courses EXCEPT ![i] = Stamped(c)]]
             ELSE [saved |-> FALSE, courses |-> courses]
        ELSE [saved |-> TRUE, courses |-> Append(courses, Stamped(c))]

\* The localStorage branch of handleImport: courses.push(course).
ImportLocal(courses, c) == Append(courses, c)

\* courses.splice(index, 1), index counted from 0.
Splice(courses, index) ==
    IF index + 1 \in 1..Len(courses)
    THEN SubSeq(courses, 1, index) \o SubSeq(courses, index + 2, Len(courses))
    ELSE courses

\* const courseId = course.id || index
CardId(courses, i) == IF courses[i].id # 0 THEN courses[i].id ELSE i - 1

Op(kind, alert, c) == [alert |-> alert, course |-> c]

StoreInit ==
    /\ rows = {}
    /\ nextId = 1
    /\ now = 0
    /\ currentCourse = <<>>
    /\ useLocalStorage = FALSE
    /\ savedCourses = <<>>
    /\ shown = <<>>
    /\ lastOp = Op("none", "none", <<>>)
    /\ exchanges = <<>>
    /\ lastSaved = [t \in StoredTopics |-> <<>>]

\* loadSavedCourses() on DOMContentLoaded.
LoadSavedCourses ==
    \E net \in Nets :
        LET l == LoadSaved(rows, savedCourses, net)
        IN  /\ useLocalStorage' = l.useLocalStorage
            /\ shown' = l.shown
            /\ exchanges' = l.exchanges
            /\ lastOp' = Op("load", "none", <<>>)
            /\ UNCHANGED <<genVars, viewVars, reqVars, clickVars, rows, nextId, now, currentCourse, savedCourses, lastSaved>>

\* generateCourse, as far as the saved courses see it: currentCourse =
\* await response.json(). The page reads currentCourse._debug, which the
\* handler with diagnostics attaches whenever the API key is set.
GenerateCourse ==
    \E t \in Topics, b \in Bodies :
        /\ currentCourse' = <<[NewCourse(t, b) EXCEPT !.debug = apiKey]>>
        /\ lastOp' = Op("generate", "none", <<>>)
        /\ exchanges' = <<>>
        /\ UNCHANGED <<genVars, viewVars, reqVars, clickVars, rows, nextId, now, useLocalStorage, savedCourses, shown, lastSaved>>

\* card.onclick = () => loadCourse(course)
LoadCourse ==
    \E i \in 1..Len(shown) :
        /\ currentCourse' = <<shown[i]>>
        /\ lastOp' = Op("open", "none", <<>>)
        /\ exchanges' = <<>>
        /\ UNCHANGED <<genVars, viewVars, reqVars, clickVars, rows, nextId, now, useLocalStorage, savedCourses, shown, lastSaved>>

\* resetToInput
ResetToInput ==
    \E net \in Nets :
        LET l == LoadSaved(rows, savedCourses, net)
        IN  /\ currentCourse' = <<>>
            /\ useLocalStorage' = l.useLocalStorage
            /\ shown' = l.shown
            /\ exchanges' = l.exchanges
            /\ lastOp' = Op("reset", "none", <<>>)
            /\ UNCHANGED <<genVars, viewVars, reqVars, clickVars, rows, nextId, now, savedCourses, lastSaved>>

\* What the store last accepted for each topic, after a POST answered
\* `answer` for course c.
Accepted(saved, c, answer) ==
    IF answer.status = 200 /\ ~answer.useLocalStorage
    THEN [saved EXCEPT ![c.topic] = <<Content(c)>>]
    ELSE saved

\* ... and after a DELETE that left the table `after`.
Remaining(saved, after) ==
    [t \in StoredTopics |-> IF Existing(after, t) = {} THEN <<>> ELSE saved[t]]

\* saveCourse
SaveCourse ==
    /\ currentCourse # <<>>
    /\ now < MaxClock
    /\ \E confirm \in BOOLEAN, net \in Fetches(useLocalStorage) :
       \E net2 \in Refetches(useLocalStorage \/ net = "probeThrows", net) :
        LET c == currentCourse[1]
            post == PostCourses(rows, nextId, <<c>>, ProbeOf(net), QueryOf(net))
            viaServer == ~useLocalStorage /\ net # "unreachable"
            local == useLocalStorage \/ (viaServer /\ post.answer.useLocalStorage)
            sl == SaveLocal(savedCourses, c, confirm)
            tbl == IF viaServer THEN post.rows ELSE rows
            l == LoadSaved(tbl, savedCourses, net2)
            posted == IF viaServer
                      THEN <<Exchange("POST", net, post.answer, rows, post.rows)>>
                      ELSE <<>>
        IN  /\ rows' = tbl
            /\ nextId' = IF viaServer THEN post.nextId ELSE nextId
            /\ now' = now + 1
            /\ lastSaved' = IF viaServer THEN Accepted(lastSaved, c, post.answer) ELSE lastSaved
            /\ UNCHANGED <<genVars, viewVars, reqVars, clickVars, currentCourse>>
            /\ IF local
               THEN \* the localStorage branch, entered directly or by the
                    \* fallback of the server branch
                    /\ useLocalStorage' = TRUE
                    /\ savedCourses' = sl.courses
                    /\ shown' = IF sl.saved THEN sl.courses ELSE shown
                    /\ exchanges' = posted
                    /\ lastOp' = Op("save", IF sl.saved THEN "savedLocal" ELSE "none", <<c>>)
               ELSE IF ~viaServer
               THEN \* fetch rejects: the catch
                    /\ lastOp' = Op("save", "saveFailed", <<c>>)
                    /\ exchanges' = <<>>
                    /\ UNCHANGED <<useLocalStorage, savedCourses, shown>>
               ELSE \* any other answer: the alert, then loadSavedCourses()
                    /\ lastOp' = Op("save", "savedDb", <<c>>)
                    /\ useLocalStorage' = l.useLocalStorage
                    /\ shown' = l.shown
                    /\ exchanges' = posted \o l.exchanges
                    /\ UNCHANGED savedCourses

\* deleteCourse(id, index) of the card at position i, confirmed or not.
DeleteCourse ==
    \E i \in 1..Len(shown), confirm \in BOOLEAN :
      \E net \in Fetches(useLocalStorage \/ ~confirm) :
       \E net2 \in Refetches(useLocalStorage \/ ~confirm, net) :
        LET id == CardId(shown, i)
            del == DeleteCourses(rows, id, ProbeOf(net), QueryOf(net))
            viaServer == confirm /\ ~useLocalStorage /\ net # "unreachable"
            tbl == IF viaServer THEN del.rows ELSE rows
            l == LoadSaved(tbl, savedCourses, net2)
            courses == Splice(savedCourses, i - 1)
        IN  /\ rows' = tbl
            /\ lastSaved' = Remaining(lastSaved, tbl)
            /\ UNCHANGED <<genVars, viewVars, reqVars, clickVars, nextId, now, currentCourse>>
            /\ IF ~confirm
               THEN /\ lastOp' = Op("delete", "none", <<>>)
                    /\ exchanges' = <<>>
                    /\ UNCHANGED <<useLocalStorage, savedCourses, shown>>
               ELSE IF useLocalStorage
               THEN /\ savedCourses' = courses
                    /\ shown' = courses
                    /\ lastOp' = Op("delete", "none", <<>>)
                    /\ exchanges' = <<>>
                    /\ UNCHANGED useLocalStorage
               ELSE IF ~viaServer
               THEN /\ lastOp' = Op("delete", "deleteFailed", <<>>)
                    /\ exchanges' = <<>>
                    /\ UNCHANGED <<useLocalStorage, savedCourses, shown>>
               ELSE /\ lastOp' = Op("delete", "none", <<>>)
                    /\ useLocalStorage' = l.useLocalStorage
                    /\ shown' = l.shown
                    /\ exchanges' = <<Exchange("DELETE", net, del.answer, rows, del.rows)>>
                                        \o l.exchanges
                    /\ UNCHANGED savedCourses

\* A file the user picks: its text parses as JSON or not, the object has a
\* topic key or not, and the rest of the object.
ImportFile(parses, hasTopic, t, kind) ==
    [parses |-> parses, hasTopic |-> hasTopic,
     course |-> [NewCourse(t, 1) EXCEPT !.skills = kind]]

\* The files a user can pick: a course whose topic is a string or a number,
\* an empty topic, no topic, skills absent or no array, and no JSON at all.
ImportFiles ==
    {ImportFile(TRUE, TRUE, t, "array") : t \in {"X", NumberTopic, ""}}
    \cup {ImportFile(TRUE, FALSE, "", "array")}
    \cup {ImportFile(TRUE, TRUE, "X", kind) : kind \in SkillsKinds}
    \cup {ImportFile(FALSE, FALSE, "", "missing")}

\* JSON.parse(e.target.result) does not throw, and
\* if (!course.topic || !course.skills || !Array.isArray(course.skills)) throw
\* does not either.
ValidImport(file) ==
    /\ file.parses
    /\ file.hasTopic
    /\ file.course.topic # ""
    /\ file.course.skills = "array"

\* handleImport, from reader.onload on.
HandleImport ==
    /\ now < MaxClock
    /\ \E file \in ImportFiles :
       \E net \in Fetches(useLocalStorage \/ ~ValidImport(file)) :
        \E net2 \in Refetches(useLocalStorage \/ ~ValidImport(file), net) :
        LET c == Stamped(file.course)
            post == PostCourses(rows, nextId, <<c>>, ProbeOf(net), QueryOf(net))
            viaServer == ValidImport(file) /\ ~useLocalStorage /\ net # "unreachable"
            tbl == IF viaServer THEN post.rows ELSE rows
            l == LoadSaved(tbl, savedCourses, net2)
            courses == ImportLocal(savedCourses, c)
        IN  /\ rows' = tbl
            /\ nextId' = IF viaServer THEN post.nextId ELSE nextId
            /\ now' = now + 1
            /\ lastSaved' = IF viaServer THEN Accepted(lastSaved, c, post.answer) ELSE lastSaved
            /\ UNCHANGED <<genVars, viewVars, reqVars, clickVars, currentCourse>>
            /\ IF ~ValidImport(file)
               THEN \* the throw, then the catch of onload
                    /\ lastOp' = Op("import", "importInvalid", <<>>)
                    /\ exchanges' = <<>>
                    /\ UNCHANGED <<useLocalStorage, savedCourses, shown>>
               ELSE IF useLocalStorage
               THEN /\ savedCourses' = courses
                    /\ shown' = courses
                    /\ lastOp' = Op("import", "imported", <<c>>)
                    /\ exchanges' = <<>>
                    /\ UNCHANGED useLocalStorage
               ELSE IF ~viaServer
               THEN \* fetch rejects: the catch of onload
                    /\ lastOp' = Op("import", "importFailed", <<>>)
                    /\ exchanges' = <<>>
                    /\ UNCHANGED <<useLocalStorage, savedCourses, shown>>
               ELSE \* the answer is not read
                    /\ lastOp' = Op("import", "imported", <<c>>)
                    /\ useLocalStorage' = l.useLocalStorage
                    /\ shown' = l.shown
                    /\ exchanges' = <<Exchange("POST", net, post.answer, rows, post.rows)>>
                                        \o l.exchanges
                    /\ UNCHANGED savedCourses

\* A DELETE /api/courses/:id sent by any other client of the server.
DeleteRequest ==
    \E id \in 0..MaxClock, net \in Nets \ {"unreachable"} :
        LET del == DeleteCourses(rows, id, ProbeOf(net), QueryOf(net))
        IN  /\ rows' = del.rows
            /\ lastSaved' = Remaining(lastSaved, del.rows)
            /\ lastOp' = Op("request", "none", <<>>)
            /\ exchanges' = <<Exchange("DELETE", net, del.answer, rows, del.rows)>>
            /\ UNCHANGED <<genVars, viewVars, reqVars, clickVars, nextId, now, currentCourse, useLocalStorage, savedCourses, shown>>

\* req.body of a POST by any other client: no course, a course whose topic
\* is empty, a course without skills, a course.
RequestBodies ==
    {<<>>, <<NewCourse("", 1)>>, <<[NewCourse("X", 1) EXCEPT !.skills = "missing"]>>,
     <<NewCourse("X", 1)>>}

\* A POST /api/courses sent by any other client of the server.
SaveRequest ==
    /\ now < MaxClock
    /\ \E sent \in RequestBodies, net \in Nets \ {"unreachable"} :
        LET post == PostCourses(rows, nextId, sent, ProbeOf(net), QueryOf(net))
        IN  /\ rows' = post.rows
            /\ nextId' = post.nextId
            /\ now' = now + 1
            /\ lastSaved' = IF sent = <<>> THEN lastSaved
                             ELSE Accepted(lastSaved, sent[1], post.answer)
            /\ lastOp' = Op("request", "posted", sent)
            /\ exchanges' = <<Exchange("POST", net, post.answer, rows, post.rows)>>
            /\ UNCHANGED <<genVars, viewVars, reqVars, clickVars, currentCourse, useLocalStorage, savedCourses, shown>>

StoreStep ==
    \/ LoadSavedCourses
    \/ GenerateCourse
    \/ LoadCourse
    \/ ResetToInput
    \/ SaveCourse
    \/ DeleteCourse
    \/ HandleImport
    \/ DeleteRequest
    \/ SaveRequest

-----------------------------------------------------------------------------
(* The course view of the client: displayCourse and exportToTrainstation *)

\* A skill of the displayed course: its name is its position, its videos
\* are numbered like the terms that found them; n < 0 is a skill without a
\* videos field.
ViewSkill(i, n) ==
    [name |-> i, hasVideos |-> n >= 0,
     videos |-> IF n > 0 THEN [k \in 1..n |-> Term(i, k)] ELSE <<>>]

\* skill.videos && skill.videos.length > 0
HasVideos(skill) == skill.hasVideos /\ Len(skill.videos) > 0

\* The number of videos displayCourse and exportToTrainstation walk in a skill.
VideoCount(skill) == IF HasVideos(skill) THEN Len(skill.videos) ELSE 0

RECURSIVE TotalVideos(_)
TotalVideos(skills) ==
    IF Len(skills) = 0 THEN 0
    ELSE VideoCount(skills[1]) + TotalVideos(Tail(skills))

\* A course with one skill of MaxVideos videos.
LongCourse == <<ViewSkill(1, MaxVideos)>>

\* The courses the view can be given: what an enrichment of a structure can
\* hold, and the long course.
ViewCourses ==
    {LongCourse} \cup
    {c \in UNION { {[i \in 1..n |-> ViewSkill(i, sh[i])] : sh \in [1..n -> -1..MaxTerms]}
                   : n \in 0..MaxSkills } :
        TotalVideos(c) <= MaxSearches}

NoCourse == <<>>
NoExport == [written |-> FALSE, root |-> 0, entities |-> <<>>]

\* getDifficultyLevel(index, total): index / total against 0.33 and 0.66.
getDifficultyLevel(index, total) ==
    IF 100 * index < 33 * total THEN "beginner"
    ELSE IF 100 * index < 66 * total THEN "intermediate"
    ELSE "advanced"

\* Bands that end at 0.3 and 0.6 of the list.
LevelAtTenths(index, total) ==
    IF 10 * index < 3 * total THEN "beginner"
    ELSE IF 10 * index < 6 * total THEN "intermediate"
    ELSE "advanced"

\* getTrainstationLevel(index, total): the same comparisons, written again.
getTrainstationLevel(index, total) ==
    IF 100 * index < 33 * total THEN "beginner"
    ELSE IF 100 * index < 66 * total THEN "intermediate"
    ELSE "advanced"

\* The badges displayCourse renders: one per video card, none under the
\* placeholder of a skill without videos.
Badges(skills) ==
    [i \in 1..Len(skills) |->
        [k \in 1..VideoCount(skills[i]) |->
            getDifficultyLevel(k - 1, Len(skills[i].videos))]]

Range(f) == {f[x] : x \in DOMAIN f}

\* The results of n calls of generateUUID(), up to renaming: Math.random
\* gives no guarantee that a result differs from an earlier one. A call
\* returns a value not returned before or, at most MaxCollisions times in
\* one export, a value returned before.
RECURSIVE generateUUID(_)
generateUUID(n) ==
    IF n = 0 THEN {<<>>}
    ELSE UNION { {Append(d, x) :
                    x \in {Cardinality(Range(d)) + 1} \cup
                          (IF Len(d) - Cardinality(Range(d)) < MaxCollisions
                           THEN Range(d) ELSE {})}
                 : d \in generateUUID(n - 1) }

RECURSIVE CallsBefore(_, _)
\* The number of generateUUID() calls made before skill i is processed:
\* rootId, then one per earlier skill and one per video of it.
CallsBefore(skills, i) ==
    IF i = 1 THEN 1 ELSE CallsBefore(skills, i - 1) + 1 + VideoCount(skills[i - 1])

\* const sectionId = generateUUID() of skill i.
SectionId(skills, d, i) == d[CallsBefore(skills, i) + 1]

\* const videoId = generateUUID() of video k of skill i.
VideoId(skills, d, i, k) == d[CallsBefore(skills, i) + 1 + k]

\* The video ids of skill i, last video first.
VideoIdsReversed(skills, d, i) ==
    [k \in 1..VideoCount(skills[i]) |->
        VideoId(skills, d, i, VideoCount(skills[i]) + 1 - k)]

\* videoIds of skill i.
VideoIds(skills, d, i) ==
    [k \in 1..VideoCount(skills[i]) |-> VideoId(skills, d, i, k)]

\* videoEntity: title stands for the video the entity is made from.
VideoEntity(skills, d, i, k) ==
    [id |-> VideoId(skills, d, i, k), type |-> "video", children |-> <<>>,
     title |-> skills[i].videos[k],
     level |-> getTrainstationLevel(k - 1, Len(skills[i].videos))]

\* sectionEntity: title is skill.name.
SectionEntity(skills, d, i) ==
    [id |-> SectionId(skills, d, i), type |-> "section",
     children |-> VideoIds(skills, d, i), title |-> skills[i].name, level |-> ""]

\* rootEntity: title is the topic, here 0.
RootEntity(skills, d) ==
    [id |-> d[1], type |-> "root",
     children |-> [i \in 1..Len(skills) |-> SectionId(skills, d, i)],
     title |-> 0, level |-> ""]

RECURSIVE EntitiesSkipEmpty(_, _, _)
\* Entities that leave out the section of a skill without videos.
EntitiesSkipEmpty(skills, d, n) ==
    IF n = 0 THEN <<>>
    ELSE EntitiesSkipEmpty(skills, d, n - 1)
         \o [k \in 1..VideoCount(skills[n]) |-> VideoEntity(skills, d, n, k)]
         \o (IF VideoCount(skills[n]) = 0 THEN <<>> ELSE <<SectionEntity(skills, d, n)>>)

RECURSIVE Entities(_, _, _)
\* entities after the first n skills: per skill its video entities, then
\* its section entity.
Entities(skills, d, n) ==
    IF n = 0 THEN <<>>
    ELSE Entities(skills, d, n - 1)
         \o [k \in 1..VideoCount(skills[n]) |-> VideoEntity(skills, d, n, k)]
         \o <<SectionEntity(skills, d, n)>>

\* The object the export downloads, with the ids of the calls d.
TrainstationExport(skills, d) ==
    [written |-> TRUE, root |-> d[1],
     entities |-> Append(Entities(skills, d, Len(skills)), RootEntity(skills, d))]

ViewIdle ==
    /\ course = NoCourse
    /\ difficulty = <<>>
    /\ trainstationExport = NoExport
    /\ generated = NotReturned

\* displayCourse(course), of a generated or a loaded course.
DisplayCourse ==
    /\ course = NoCourse
    /\ \E skills \in ViewCourses :
        /\ course' = <<skills>>
        /\ difficulty' = Badges(skills)
    /\ UNCHANGED <<genVars, storeVars, reqVars, clickVars, trainstationExport, generated>>

\* exportToTrainstation(), one call for the displayed course: it returns at
\* once without a course, and a call keeps nothing for the next one.
ExportToTrainstation ==
    /\ course # NoCourse
    /\ ~trainstationExport.written
    /\ LET skills == course[1]
           calls == CallsBefore(skills, Len(skills) + 1)
       IN  \E d \in generateUUID(calls) :
               trainstationExport' = TrainstationExport(skills, d)
    /\ UNCHANGED <<genVars, storeVars, reqVars, clickVars, course, difficulty, generated>>

ViewStep ==
    \/ DisplayCourse
    \/ ExportToTrainstation

-----------------------------------------------------------------------------
(* POST /api/courses, statement by statement, for concurrent requests *)

\* A request that has not arrived.
NoPost == [pc |-> "idle", sent |-> <<>>, existing |-> FALSE, status |-> 0, id |-> 0]

\* The bodies of the concurrent requests: no course, or a course with a topic.
PostBodies == {<<>>} \cup {<<NewCourse(t, b)>> : t \in Topics, b \in Bodies}

PostsIdle == posts = [r \in 1..MaxRequests |-> NoPost]

\* The handler up to its first query: the probe, then the check of the body.
PostCoursesArrives(r) ==
    /\ posts[r].pc = "idle"
    /\ \E sent \in PostBodies, probe \in StoreAnswers :
        posts' = [posts EXCEPT ![r] =
            IF ~IsDatabaseAvailable(probe)
            THEN [@ EXCEPT !.pc = "done", !.sent = sent, !.status = 200]
            ELSE IF sent = <<>> \/ sent[1].topic = ""
            THEN [@ EXCEPT !.pc = "done", !.sent = sent, !.status = 400]
            ELSE [@ EXCEPT !.pc = "select", !.sent = sent]]
    /\ UNCHANGED <<genVars, storeVars, viewVars, clickVars>>

\* const existing = await pool.query('SELECT id FROM courses WHERE topic = $1')
PostCoursesSelect(r) ==
    /\ posts[r].pc = "select"
    /\ \E query \in StoreAnswers :
        posts' = [posts EXCEPT ![r] =
            IF query = "throws"
            THEN [@ EXCEPT !.pc = "done", !.status = 500]
            ELSE [@ EXCEPT !.pc = "write",
                           !.existing = Existing(rows, posts[r].sent[1].topic) # {}]]
    /\ UNCHANGED <<genVars, storeVars, viewVars, clickVars>>

\* The UPDATE when the SELECT had found a row, else the INSERT, and the
\* answer; result.rows[0].id throws when the UPDATE matches no row.
PostCoursesWrite(r) ==
    /\ posts[r].pc = "write"
    /\ now < MaxClock + MaxRequests
    /\ \E query \in StoreAnswers :
        LET c == posts[r].sent[1]
            matched == Existing(rows, c.topic)
        IN  IF query = "throws" \/ (posts[r].existing /\ matched = {})
            THEN /\ posts' = [posts EXCEPT ![r] = [@ EXCEPT !.pc = "done", !.status = 500]]
                 /\ UNCHANGED <<rows, nextId, now>>
            ELSE IF posts[r].existing
            THEN /\ rows' = {IF x.topic = c.topic
                             THEN [x EXCEPT !.data = c, !.updated_at = now + 1]
                             ELSE x : x \in rows}
                 /\ now' = now + 1
                 /\ \E x \in matched :
                        posts' = [posts EXCEPT ![r] =
                                     [@ EXCEPT !.pc = "done", !.status = 200, !.id = x.id]]
                 /\ UNCHANGED nextId
            ELSE /\ rows' = rows \cup {[id |-> nextId, topic |-> c.topic, data |-> c,
                                        updated_at |-> now + 1]}
                 /\ nextId' = nextId + 1
                 /\ now' = now + 1
                 /\ posts' = [posts EXCEPT ![r] =
                                 [@ EXCEPT !.pc = "done", !.status = 200, !.id = nextId]]
    /\ UNCHANGED <<genVars, viewVars, clickVars, currentCourse, useLocalStorage, savedCourses,
                   shown, lastOp, exchanges, lastSaved>>

PostArrives == \E r \in 1..MaxRequests : PostCoursesArrives(r)
PostSelect == \E r \in 1..MaxRequests : PostCoursesSelect(r)
PostWrite == \E r \in 1..MaxRequests : PostCoursesWrite(r)

PostStep ==
    \/ PostArrives
    \/ PostSelect
    \/ PostWrite

------------------------------------------------------------------------------
(* The generate button, the topic field and generateCourse() *)

\* A generateCourse() call that has not been made.
NoGeneration == [pc |-> "idle", topic |-> ""]

\* The calls that are awaiting the answer of their fetch.
Pending == {g \in 1..MaxGenerations : generations[g].pc = "fetching"}

\* The calls made so far; a call is numbered in the order of the starts.
Started == {g \in 1..MaxGenerations : generations[g].pc # "idle"}

ClicksIdle ==
    /\ generations = [g \in 1..MaxGenerations |-> NoGeneration]
    /\ generateBtnDisabled = FALSE
    /\ loadingHidden = TRUE
    /\ inputSectionHidden = FALSE
    /\ currentGeneration = 0

\* generateCourse() up to its await fetch, for a topic that is not empty
\* when trimmed: the button is disabled and the loading indicator shown.
GenerateCourseStarts(t) ==
    /\ Cardinality(Started) < MaxGenerations
    /\ generations' = [generations EXCEPT ![Cardinality(Started) + 1] =
                          [pc |-> "fetching", topic |-> t]]
    /\ generateBtnDisabled' = TRUE
    /\ loadingHidden' = FALSE
    /\ UNCHANGED <<genVars, storeVars, viewVars, reqVars, inputSectionHidden, currentGeneration>>

\* generateBtn.addEventListener('click', generateCourse): a disabled or a
\* hidden button gives no click.
GenerateBtnClick ==
    /\ ~generateBtnDisabled
    /\ ~inputSectionHidden
    /\ \E t \in Topics : GenerateCourseStarts(t)

\* The keypress listener of topicInput: if (e.key === 'Enter')
\* generateCourse(). The field is never disabled; it is out of reach only
\* while its section is hidden.
TopicInputEnter ==
    /\ ~inputSectionHidden
    /\ \E t \in Topics : GenerateCourseStarts(t)

\* generateCourse() after its await: with an ok response currentCourse is
\* the answer and displayCourse hides the input section, otherwise the
\* catch alerts; finally re-enables the button and hides the indicator.
GenerateCourseResumes(g, ok) ==
    /\ generations[g].pc = "fetching"
    /\ generations' = [generations EXCEPT ![g].pc = "done"]
    /\ IF ok
       THEN /\ currentCourse' = <<NewCourse(generations[g].topic, 1)>>
            /\ currentGeneration' = g
            /\ inputSectionHidden' = TRUE
       ELSE UNCHANGED <<currentCourse, currentGeneration, inputSectionHidden>>
    /\ generateBtnDisabled' = FALSE
    /\ loadingHidden' = TRUE
    /\ UNCHANGED <<genVars, viewVars, reqVars, rows, nextId, now, useLocalStorage,
                   savedCourses, shown, lastOp, exchanges, lastSaved>>

FetchAnswers == \E g \in 1..MaxGenerations, ok \in BOOLEAN : GenerateCourseResumes(g, ok)

\* newCourseBtn click: resetToInput() shows the input section again, clears
\* currentCourse and reloads the saved courses.
NewCourseBtnClick ==
    /\ inputSectionHidden
    /\ \E net \in Nets :
        LET l == LoadSaved(rows, savedCourses, net)
        IN  /\ currentCourse' = <<>>
            /\ useLocalStorage' = l.useLocalStorage
            /\ shown' = l.shown
            /\ exchanges' = l.exchanges
            /\ lastOp' = Op("reset", "none", <<>>)
    /\ inputSectionHidden' = FALSE
    /\ currentGeneration' = 0
    /\ UNCHANGED <<genVars, viewVars, reqVars, rows, nextId, now, savedCourses, lastSaved,
                   generations, generateBtnDisabled, loadingHidden>>

ClickStep ==
    \/ GenerateBtnClick
    \/ TopicInputEnter
    \/ FetchAnswers
    \/ NewCourseBtnClick

------------------------------------------------------------------------------
(* The specifications *)

\* One generation request; the store and the client stay as constructed.
GenInit == GenIdle /\ apiKey \in BOOLEAN /\ StoreInit /\ ViewIdle /\ PostsIdle /\ ClicksIdle

GenNext == GenStep

SpecGen == GenInit /\ [][GenNext]_vars

\* The store, one client and the requests of other clients; no generation
\* request is in progress.
StoreOnlyInit == StoreInit /\ GenIdle /\ apiKey = TRUE /\ ViewIdle /\ PostsIdle /\ ClicksIdle

StoreNext == StoreStep

SpecStore == StoreOnlyInit /\ [][StoreNext]_vars

\* The course view: one course is displayed and exported once; no request
\* is in progress and nothing is saved.
ViewInit == ViewIdle /\ GenIdle /\ apiKey = TRUE /\ StoreInit /\ PostsIdle /\ ClicksIdle

ViewNext == ViewStep

SpecView == ViewInit /\ [][ViewNext]_vars

\* Concurrent save requests against an empty table; the client is idle.
PostsInit == PostsIdle /\ StoreInit /\ GenIdle /\ apiKey = TRUE /\ ViewIdle /\ ClicksIdle

PostsNext == PostStep

SpecPosts == PostsInit /\ [][PostsNext]_vars

\* The generation calls of one page; the server side is not followed.
ClicksInit == ClicksIdle /\ StoreInit /\ GenIdle /\ apiKey = TRUE /\ ViewIdle /\ PostsIdle

ClicksNext == ClickStep

SpecClicks == ClicksInit /\ [][ClicksNext]_vars

-----------------------------------------------------------------------------
(* Properties of a generation request *)

RECURSIVE SumTo(_, _)
\* f[1] + ... + f[n]
SumTo(f, n) == IF n = 0 THEN 0 ELSE f[n] + SumTo(f, n - 1)

\* The number of search terms attempted so far, all skills together.
Attempted == SumTo([s \in DOMAIN cursor |-> cursor[s]], Len(cursor))

\* The answers received so far as (skill, position) pairs.
Answers == UNION {{<<s, k>> : k \in 1..Len(attempts[s])} : s \in DOMAIN attempts}

TermsOf(s) == courseStructure.skills[s].searchTerms

\* The handler with diagnostics has sent the course.
SentCourseWithDebug == response.status = 200 /\ response.hasDebug

\* C1: when the full-generation response is produced, totalSearches is the
\* number of terms attempted and totalSearches = successfulSearches +
\* failedSearches, whatever each search call gave.
C1_EachTermCountedOnce ==
    SentCourseWithDebug =>
        /\ response.debug.totalSearches = Attempted
        /\ response.debug.totalSearches =
             response.debug.successfulSearches + response.debug.failedSearches

\* C2: after a quotaExceeded answer for a term of a skill no later term of
\* that skill is ever searched; the failing term is counted in totalSearches
\* and failedSearches and recorded in the error list, and the skill's videos
\* come from terms that preceded it.
C2_QuotaStopsTheSkill ==
    build = "part_001" =>
        /\ totalSearches = Attempted
        /\ failedSearches = Cardinality({a \in Answers : attempts[a[1]][a[2]] # "item"})
        /\ \A a \in Answers :
             attempts[a[1]][a[2]] = "errorQuota" =>
                /\ cursor[a[1]] = a[2]
                /\ Len(attempts[a[1]]) = a[2]
                /\ skillState[a[1]] = "returned"
                /\ \E e \in 1..Len(youtubeErrors) :
                     /\ youtubeErrors[e].term = TermsOf(a[1])[a[2]]
                     /\ youtubeErrors[e].reason = "quotaExceeded"
                /\ \A v \in 1..Len(videos[a[1]]) :
                     \E j \in 1..(a[2] - 1) : videos[a[1]][v].searchTerm = TermsOf(a[1])[j]

\* A skill of three terms whose first search found a video and whose second
\* met the quota error; its loop is over.
C2_Witness ==
    /\ build = "part_001"
    /\ gpc = "done"
    /\ \E s \in DOMAIN attempts :
        /\ Len(TermsOf(s)) = 3
        /\ attempts[s] = <<"item", "errorQuota">>
        /\ Len(videos[s]) = 1

C4_AlwaysReturnsCourse ==
    (endpoint = "full" /\ apiKey /\ courseStructure.parsed
        /\ courseStructure.skillsIsSeq /\ gpc = "done") =>
        /\ response.status = 200
        /\ response.hasSkills
        /\ Len(response.skills) = Len(courseStructure.skills)

\* C5: when the completion text does not parse, the error response carries
\* the raw completion text, in structure-only and in full mode.
C5_ParseErrorCarriesRaw ==
    (Responded /\ responseText # <<>> /\ ~ParseOk(responseText)) =>
        /\ response.status = 500
        /\ response.hasRaw
        /\ response.raw = responseText

-----------------------------------------------------------------------------
(* Properties of the store and of the client's saved courses *)

\* What GET /api/courses lists when the store works.
Listed == GetCourses(rows, "ok", "ok").courses

\* C6: in store-backed mode the table holds at most one row per topic, and
\* the list has, for each topic saved and not deleted, exactly one course,
\* whose content is the one saved last.
C6_OneRowPerTopic ==
    /\ \A r1 \in rows, r2 \in rows : r1.topic = r2.topic => r1 = r2
    /\ \A t \in StoredTopics :
         LET hits == {i \in 1..Len(Listed) : Listed[i].topic = t}
         IN  IF lastSaved[t] = <<>>
             THEN hits = {}
             ELSE /\ Cardinality(hits) = 1
                  /\ \A i \in hits : Content(Listed[i]) = lastSaved[t][1]

\* Topic X saved twice with different content: one row, the first row's id,
\* the second content.
C6_Witness ==
    /\ Cardinality(rows) = 1
    /\ \E r \in rows :
         r.topic = "X" /\ r.id = 1 /\ r.updated_at = 2 /\ r.data.body = 2
    /\ lastSaved["X"] = <<Content([NewCourse("X", 2) EXCEPT !.debug = apiKey])>>

\* C7: every listed course carries the id of its own row, so a delete with
\* the id of a listed course takes that course off the list; a delete with an
\* id no row has succeeds and leaves the table as it is.
C7_ListedIdIsRowId ==
    /\ \A r \in rows : ListedCourse(r).id = r.id
    /\ \A i \in 1..Len(Listed) :
         LET after == DeleteCourses(rows, Listed[i].id, "ok", "ok").rows
         IN  \A r \in after : r.topic # Listed[i].topic
    /\ \A id \in 0..MaxClock :
         (\A r \in rows : r.id # id) =>
             LET del == DeleteCourses(rows, id, "ok", "ok")
             IN  del.rows = rows /\ del.answer.status = 200

\* C8: the local store holds at most one course per topic.
C8_LocalOnePerTopic ==
    \A i \in 1..Len(savedCourses), j \in 1..Len(savedCourses) :
        savedCourses[i].topic = savedCourses[j].topic => i = j

\* The course is in the table or in the local store.
Stored(c) ==
    \/ \E r \in rows : Content(r.data) = Content(c)
    \/ \E i \in 1..Len(savedCourses) : Content(savedCourses[i]) = Content(c)

\* C9: a save or an import that the client reported as done has stored the
\* course in the table or in the local store.
C9_ReportedMeansStored ==
    lastOp.alert \in {"savedLocal", "savedDb", "imported"} => Stored(lastOp.course[1])

\* C10: the probe answers false when the store fails, and an endpoint whose
\* probe answered false sends a 200 with useLocalStorage = true (the list
\* endpoint with no course), without a query on the store and without a
\* change of the table.
C10_ProbeFalseMeansFallback ==
    \A i \in 1..Len(exchanges) :
        LET e == exchanges[i]
        IN  /\ e.probe = "throws" => ~e.available
            /\ ~e.available =>
                  /\ e.status = 200
                  /\ e.useLocalStorage
                  /\ e.queries = 0
                  /\ ~e.changed
                  /\ e.endpoint = "GET" => e.listed = 0

\* With a course in the table, a save met a failing probe and went to the
\* local store, and a list met a failing probe.
C10_Witness ==
    /\ rows # {}
    /\ \E i \in 1..Len(exchanges) :
         /\ exchanges[i].probe = "throws"
         /\ exchanges[i].endpoint = "POST"
    /\ lastOp.alert = "savedLocal"
    /\ savedCourses # <<>>

-----------------------------------------------------------------------------
(* Properties of import, save and what is stored *)

\* C11: an import is accepted only when the topic is a non-empty string and
\* skills is a sequence, and an import rejected for its shape leaves the
\* table and the local store as they were.
C11_ImportValidates ==
    [][/\ lastOp'.alert = "imported" =>
            /\ IsString(lastOp'.course[1].topic)
            /\ lastOp'.course[1].topic # ""
            /\ lastOp'.course[1].skills = "array"
       /\ lastOp'.alert = "importInvalid" =>
            /\ rows' = rows
            /\ savedCourses' = savedCourses]_vars

\* The course does not have the minimal shape: no course, a topic that is
\* not a non-empty string, or skills that is no sequence.
BadShape(sent) ==
    \/ sent = <<>>
    \/ sent[1].topic = ""
    \/ ~IsString(sent[1].topic)
    \/ sent[1].skills # "array"

\* C12: a save of a course without the minimal shape, by the client or by a
\* POST /api/courses, changes neither the table nor the local store.
C12_SaveValidates ==
    [][(lastOp'.alert \in {"posted", "savedDb", "savedLocal", "saveFailed"}
          /\ BadShape(lastOp'.course)) =>
            /\ rows' = rows
            /\ savedCourses' = savedCourses]_vars

\* C13: no stored course, in the table or in the local store, contains the
\* diagnostics of its generation.
C13_DebugNeverStored ==
    /\ \A r \in rows : ~r.data.debug
    /\ \A i \in 1..Len(savedCourses) : ~savedCourses[i].debug

-----------------------------------------------------------------------------
(* Properties of the diagnostics and of the enriched skills *)

\* C14: the errors of the diagnostics sent are at most 5, and they are the
\* first errors recorded, in the order of recording.
C14_ErrorsCapped ==
    SentCourseWithDebug =>
        LET errors == response.debug.errors
        IN  /\ Len(errors) <= MaxReportedErrors
            /\ Len(errors) <= Len(youtubeErrors)
            /\ errors = SubSeq(youtubeErrors, 1, Len(errors))
            /\ Len(youtubeErrors) >= MaxReportedErrors => Len(errors) = MaxReportedErrors
            /\ response.debug.hasErrors <=> youtubeErrors # <<>>

\* Six searches failed with a recorded error and five are reported.
C14_Witness ==
    /\ SentCourseWithDebug
    /\ Len(youtubeErrors) = MaxReportedErrors + 1
    /\ Len(response.debug.errors) = MaxReportedErrors

\* An entry of the error list for the term at position k of skill s.
EntriesOf(s, k) ==
    {e \in 1..Len(youtubeErrors) : youtubeErrors[e].term = TermsOf(s)[k]}

\* C15: a term adds an entry to the error list exactly when its search gave
\* a service error or threw (then with the code FETCH_ERROR); a term without
\* results and a term that gave a video add none, and after a term without
\* results or a thrown search the next term of the skill is searched.
C15_ErrorEntryIff ==
    build = "part_001" =>
        \A a \in Answers :
            LET s == a[1]
                k == a[2]
                o == attempts[s][k]
            IN  /\ EntriesOf(s, k) # {} <=> o \in {"errorQuota", "errorOther", "throws"}
                /\ \A e \in EntriesOf(s, k) :
                     youtubeErrors[e].code = "FETCH_ERROR" <=> o = "throws"
                /\ Cardinality(EntriesOf(s, k)) <= 1
                /\ (o \in {"empty", "throws"} /\ k < Len(TermsOf(s))) => cursor[s] > k

\* The positions in the searchTerms of skill s that hold the term t.
PositionsOf(s, t) == {k \in 1..Len(TermsOf(s)) : TermsOf(s)[k] = t}

\* vids holds, in the order of the terms of skill s, at most one video for
\* each term, and only for terms whose search gave a first item.
FromTermsInOrder(s, vids) ==
    /\ Len(vids) <= Len(TermsOf(s))
    /\ \A v \in 1..Len(vids) :
         \E k \in PositionsOf(s, vids[v].searchTerm) :
            /\ k <= Len(attempts[s])
            /\ HasItems(attempts[s][k])
    /\ \A v \in 1..Len(vids), w \in 1..Len(vids) :
         v < w => \E k \in PositionsOf(s, vids[v].searchTerm),
                     l \in PositionsOf(s, vids[w].searchTerm) : k < l

\* C16: the videos of every enriched skill are at most one for each search
\* term, each carries the term whose search gave it, and they are in the
\* order of the terms.
C16_VideosFollowTerms ==
    /\ \A s \in DOMAIN videos : FromTermsInOrder(s, videos[s])
    /\ (response.status = 200 /\ response.hasSkills /\ endpoint = "full" /\ apiKey) =>
         \A s \in 1..Len(response.skills) :
            /\ response.skills[s].hasVideos
            /\ response.skills[s].videos = videos[s]

\* A skill of three terms whose first and third search gave a video and
\* whose second gave none: the course has the two videos, in that order.
C16_Witness ==
    /\ response.status = 200
    /\ \E s \in DOMAIN attempts :
         /\ Len(TermsOf(s)) = 3
         /\ attempts[s] = <<"item", "empty", "item">>
         /\ Len(response.skills[s].videos) = 2
         /\ response.skills[s].videos[1].searchTerm = TermsOf(s)[1]
         /\ response.skills[s].videos[2].searchTerm = TermsOf(s)[3]

\* C17: the skills of the course sent are the skills of the parsed structure
\* in the same order, in whatever order the skills' searches were answered.
C17_SkillsInInputOrder ==
    (endpoint = "full" /\ response.status = 200 /\ response.hasSkills) =>
        /\ Len(response.skills) = Len(courseStructure.skills)
        /\ \A i \in 1..Len(response.skills) :
             /\ response.skills[i].name = courseStructure.skills[i].name
             /\ response.skills[i].searchTerms = courseStructure.skills[i].searchTerms

\* Two skills of one term each; the search of the second was answered, and
\* its loop was over, before the search of the first was answered.
C17_Witness ==
    /\ build = "part_001"
    /\ response.status = 200
    /\ Len(response.skills) = 2
    /\ Len(youtubeErrors) = 2
    /\ youtubeErrors[1].term = Term(2, 1)
    /\ youtubeErrors[2].term = Term(1, 1)
    /\ Len(TermsOf(1)) = 1
    /\ Len(TermsOf(2)) = 1
    /\ response.skills[1].name = 1
    /\ response.skills[2].name = 2

\* No search has been issued in this request.
NoSearchIssued ==
    /\ gpc # "searching"
    /\ \A s \in DOMAIN cursor : cursor[s] = 0
    /\ \A s \in DOMAIN attempts : attempts[s] = <<>>
    /\ totalSearches = 0

\* C18: without the API key a full-generation call issues no search, and
\* once the structure is parsed it answers 200 with the structure, a null
\* video list and a message.
C18_NoKeyNoSearch ==
    (endpoint = "full" /\ ~apiKey) =>
        /\ NoSearchIssued
        /\ (gpc = "done" /\ courseStructure.parsed) =>
             /\ response.status = 200
             /\ response.error = ""
             /\ response.videosNull
             /\ response.hasMessage
             /\ response.topic = courseStructure.topic
             /\ response.hasSkills = courseStructure.skillsIsSeq
             /\ Len(response.skills) = Len(courseStructure.skills)
             /\ \A i \in 1..Len(response.skills) :
                  /\ response.skills[i].name = courseStructure.skills[i].name
                  /\ response.skills[i].searchTerms = courseStructure.skills[i].searchTerms
                  /\ ~response.skills[i].hasVideos

\* Without the key, a structure of two skills with search terms has been
\* answered.
C18_Witness ==
    /\ endpoint = "full"
    /\ ~apiKey
    /\ gpc = "done"
    /\ response.videosNull
    /\ Len(response.skills) = 2
    /\ Len(response.skills[1].searchTerms) > 0
    /\ Len(response.skills[2].searchTerms) > 0

\* The completion text of this request holds a span from its first "{" to
\* its last "}" that is JSON.
TextIsJson ==
    /\ JsonMatch(responseText).found
    /\ JsonParses(JsonMatch(responseText).span)

\* C19: when the completion text does not parse, the call ends with an error
\* response, without a course and without a search; and no search is issued
\* unless the structure has been parsed.
C19_ParseFailureEscalates ==
    /\ (responseText # <<>> /\ ~TextIsJson) =>
         /\ gpc = "done"
         /\ response.status = 500
         /\ response.error # ""
         /\ ~response.hasSkills
         /\ response.skills = <<>>
         /\ NoSearchIssued
    /\ ~NoSearchIssued =>
         /\ courseStructure.parsed
         /\ TextIsJson

\* The text has an opening and a closing brace but is no JSON, the API key
\* is set, and the full-generation call has answered.
C19_Witness ==
    /\ endpoint = "full"
    /\ apiKey
    /\ responseText = <<"{", "k", "}", "p", "{", "k", "}">>
    /\ response.status = 500

\* topic.trim() is empty: the topic is missing, empty or blank.
EmptyWhenTrimmed(t) == t \in {"", " "}

\* C20: a generation request whose topic is empty after trimming is answered
\* with an error, and no completion is ever requested for it.
C20_BlankTopicRejected ==
    (endpoint # "none" /\ EmptyWhenTrimmed(topic)) =>
        /\ gpc = "done"
        /\ response.status = 400
        /\ responseText = <<>>
        /\ NoSearchIssued

\* The completion text has a "{" that is followed later by a "}".
HasBraceSpan == 
    /\ Opens(responseText) # {}
    /\ Closes(responseText) # {}
    /\ Min(Opens(responseText)) < Max(Closes(responseText))

\* The substring of the completion text from its first "{" to its last "}".
BraceSpan == SubSeq(responseText, Min(Opens(responseText)), Max(Closes(responseText)))

\* C21: the structure is parsed exactly when the substring from the first "{"
\* to the last "}" of the completion text is JSON, whatever surrounds it; with
\* no such substring, or one that is no JSON, the call ends with an error.
C21_ParsesFirstToLastBrace ==
    responseText # <<>> =>
        /\ courseStructure.parsed <=> (HasBraceSpan /\ JsonParses(BraceSpan))
        /\ ~courseStructure.parsed => (response.status = 500 /\ ~response.hasSkills)

\* A completion with prose before and after its object has been parsed.
C21_Witness ==
    /\ responseText = <<"p", "{", "k", ",", "k", "}", "p">>
    /\ courseStructure.parsed
    /\ gpc = "done"
    /\ response.status = 200

------------------------------------------------------------------------------
(* Properties of the course view and the Trainstation export *)

\* The positions in the exported entities of the entities of one type.
OfType(t) ==
    {p \in DOMAIN trainstationExport.entities : trainstationExport.entities[p].type = t}

\* The positions of the entities of type t made from the item with this title.
MadeFrom(t, title) ==
    {p \in OfType(t) : trainstationExport.entities[p].title = title}

\* The videos of skill i of the displayed course, none when the field is absent.
VideosOf(i) == IF course[1][i].hasVideos THEN course[1][i].videos ELSE <<>>

\* The number of videos of the displayed course.
AllVideos == SumTo([i \in 1..Len(course[1]) |-> Len(VideosOf(i))], Len(course[1]))

\* C22: the export of a course with S skills and V videos has exactly
\* 1 + S + V entities: one root whose id is the root field, one section per
\* skill, also for a skill without videos, and one video entity per video.
C22_EntityCount ==
    trainstationExport.written =>
        /\ Len(trainstationExport.entities) = 1 + Len(course[1]) + AllVideos
        /\ Cardinality(OfType("root")) = 1
        /\ \A p \in OfType("root") :
               trainstationExport.entities[p].id = trainstationExport.root
        /\ Cardinality(OfType("section")) = Len(course[1])
        /\ \A i \in 1..Len(course[1]) :
               /\ Cardinality(MadeFrom("section", course[1][i].name)) = 1
               /\ \A k \in 1..Len(VideosOf(i)) :
                      Cardinality(MadeFrom("video", VideosOf(i)[k])) = 1
        /\ Cardinality(OfType("video")) = AllVideos

\* A course of two skills, the first with three videos and the second with
\* an empty list, has been exported: six entities.
C22_Witness ==
    /\ course = <<(<<ViewSkill(1, 3), ViewSkill(2, 0)>>)>>
    /\ trainstationExport.written
    /\ Len(trainstationExport.entities) = 6

\* The id of the only entity of type t made from the item with this title.
IdOf(t, title) ==
    trainstationExport.entities[CHOOSE p \in MadeFrom(t, title) : TRUE].id

\* C23: the root's children are the section ids in skill order, a section's
\* children are the ids of its skill's videos in the order of the videos,
\* empty for a skill with no or an absent video list, and a video entity has
\* no children.
C23_ChildrenInOrder ==
    trainstationExport.written =>
        /\ \A p \in OfType("root") :
               trainstationExport.entities[p].children =
                   [i \in 1..Len(course[1]) |-> IdOf("section", course[1][i].name)]
        /\ \A i \in 1..Len(course[1]) :
               \A p \in MadeFrom("section", course[1][i].name) :
                   trainstationExport.entities[p].children =
                       [k \in 1..Len(VideosOf(i)) |-> IdOf("video", VideosOf(i)[k])]
        /\ \A p \in OfType("video") : trainstationExport.entities[p].children = <<>>

\* The ids of the exported entities are pairwise distinct.
IdsDistinct ==
    \A p, q \in DOMAIN trainstationExport.entities :
        p # q => trainstationExport.entities[p].id # trainstationExport.entities[q].id

\* A course whose first skill has two videos and whose second has no videos
\* field has been exported, with distinct ids.
C23_Witness ==
    /\ course = <<(<<ViewSkill(1, 2), ViewSkill(2, -1)>>)>>
    /\ trainstationExport.written
    /\ IdsDistinct

\* The ids that appear in the children list of the entity at position p.
ChildrenOf(p) == Range(trainstationExport.entities[p].children)

Band(index, total) ==
    IF 100 * index < 33 * total THEN 1
    ELSE IF 33 * total <= 100 * index /\ 100 * index < 66 * total THEN 2
    ELSE 3

LevelNames == <<"beginner", "intermediate", "advanced">>

\* The level the export wrote for video k of skill i.
ExportedLevel(i, k) ==
    trainstationExport.entities[CHOOSE p \in MadeFrom("video", VideosOf(i)[k]) : TRUE].level

\* C25: the badge of the video at index in a list of total videos is
\* beginner iff 100*index < 33*total, intermediate iff
\* 33*total <= 100*index < 66*total, advanced otherwise; the level never
\* decreases along the list; and the export writes the level the view shows.
C25_LevelBands ==
    course # NoCourse =>
        \A i \in 1..Len(course[1]) :
            /\ Len(difficulty[i]) = IF Len(VideosOf(i)) > 0 THEN Len(VideosOf(i)) ELSE 0
            /\ \A k \in 1..Len(VideosOf(i)) :
                   /\ difficulty[i][k] = LevelNames[Band(k - 1, Len(VideosOf(i)))]
                   /\ k > 1 => Band(k - 2, Len(VideosOf(i))) <= Band(k - 1, Len(VideosOf(i)))
                   /\ trainstationExport.written => ExportedLevel(i, k) = difficulty[i][k]

\* A list of ten videos is displayed and exported: indices 0-3 are beginner,
\* 4-6 intermediate, 7-9 advanced.
C25_Witness ==
    /\ course = <<LongCourse>>
    /\ MaxVideos >= 10
    /\ trainstationExport.written
    /\ \A k \in 1..4 : difficulty[1][k] = "beginner"
    /\ \A k \in 5..7 : difficulty[1][k] = "intermediate"
    /\ \A k \in 8..10 : difficulty[1][k] = "advanced"
    /\ ExportedLevel(1, 4) = "beginner"
    /\ ExportedLevel(1, 5) = "intermediate"

------------------------------------------------------------------------------
(* Properties of the client after a generation *)

\* The number of searches of this call that came back with a video item.
SuccessfulAnswers == Cardinality({a \in Answers : HasItems(attempts[a[1]][a[2]])})

\* C26: after a generation call has returned a course, the client shows the
\* blocking warning exactly when no search of the call succeeded, and it
\* displays the course in both cases.
C26_WarningIffNoSuccess ==
    (generated.returned /\ response.status = 200) =>
        /\ generated.warning <=> (SuccessfulAnswers = 0)
        /\ generated.displayed

------------------------------------------------------------------------------
(* Properties of the saved list in fallback mode *)

\* C27: in fallback mode the saved courses are listed as the store lists
\* them, most recently updated first, after any saves, re-saves and imports.
C27_LocalListNewestFirst ==
    (useLocalStorage /\ shown = savedCourses) =>
        \A i, j \in DOMAIN shown : i < j => shown[i].savedAt >= shown[j].savedAt

------------------------------------------------------------------------------
(* Properties of the shared accumulators under interleaving *)

\* The answers that were a service error or a thrown search call.
ErrorAnswers ==
    {a \in Answers : attempts[a[1]][a[2]] \in {"errorQuota", "errorOther", "throws"}}

\* C28: with the enrichments of the skills interleaving at every search
\* call, no update of the shared accumulators is lost: totalSearches is the
\* number of terms attempted, all skills together, in the final response too,
\* and the error list holds exactly one entry for every service error and
\* every thrown search call, and none for a term that was not searched.
C28_NoLostUpdate ==
    build = "part_001" =>
        /\ totalSearches = Attempted
        /\ SentCourseWithDebug => response.debug.totalSearches = Cardinality(Answers)
        /\ \A a \in ErrorAnswers : Cardinality(EntriesOf(a[1], a[2])) = 1
        /\ \A e \in 1..Len(youtubeErrors) :
               \E a \in Answers : e \in EntriesOf(a[1], a[2])
        /\ \A a \in Answers : Cardinality(EntriesOf(a[1], a[2])) <= 1

\* Two enrichments have interleaved: the error list holds an error of the
\* second skill between two errors of the first, and the response is sent.
C28_Witness ==
    /\ SentCourseWithDebug
    /\ Len(youtubeErrors) = 3
    /\ youtubeErrors[1].term = Term(1, 1)
    /\ youtubeErrors[2].term = Term(2, 1)
    /\ youtubeErrors[3].term = Term(1, 2)
    /\ response.debug.totalSearches = 3

------------------------------------------------------------------------------
(* Properties of concurrent save requests *)

\* The topics that a finished request has saved.
SavedTopics ==
    {posts[r].sent[1].topic : r \in {q \in 1..MaxRequests : posts[q].status = 200 /\ posts[q].id # 0}}

\* C29: whatever the interleaving of the statements of concurrent save
\* requests with the same topic, the table ends with exactly one row for
\* that topic.
C29_OneRowPerTopicConcurrent ==
    (\A r \in 1..MaxRequests : posts[r].pc \in {"idle", "done"}) =>
        \A t \in SavedTopics : Cardinality(Existing(rows, t)) = 1

------------------------------------------------------------------------------
(* Properties of the mode flag and the list on screen *)

\* C30: whenever useLocalStorage is true the list on screen is the list of
\* the local store, so that the card at an index stands for the local entry
\* at that index, which a delete from the card removes.
C30_FallbackShowsLocalList ==
    useLocalStorage => shown = savedCourses

------------------------------------------------------------------------------
(* Properties of the generation calls of the client *)

\* C31: at most one generation call of the client awaits its answer at any
\* time; the generate button is enabled and the loading indicator hidden only
\* when no call is pending; and currentCourse, when set by a generation, is
\* the answer of the call started last.
C31_OneGenerationInFlight ==
    /\ Cardinality(Pending) <= 1
    /\ (~generateBtnDisabled \/ loadingHidden) => Pending = {}
    /\ currentGeneration # 0 => currentGeneration = Cardinality(Started)

====
